---------------------------- MODULE Spec2Model ----------------------------
(***************************************************************************)
(* Squirtle / Flock: the distributed execution-context protocol.            *)
(*                                                                         *)
(*   benchmarks/src/nexmark/distributed.rs                                  *)
(*       nexmark_benchmark, create_nexmark_functions      (Spec)            *)
(*   src/runtime/src/context.rs                                             *)
(*       compare_schema                                   (SpecSchema)      *)
(*       feed_one_source, feed_two_source,                                  *)
(*       feed_data_sources                                (SpecFeed)        *)
(*       marshal, unmarshal                               (SpecCtx)         *)
(*       plan, execute and the feeders on a context       (SpecPlan)        *)
(*                                                                         *)
(* Each specification moves only its own variables; the variables of the    *)
(* other components stay at their idle value.                               *)
(***************************************************************************)
EXTENDS Integers, Sequences, FiniteSets, Bags, TLC

VARIABLES
    \* ---- launcher / driver (distributed.rs) ----
    count,        \* dag.node_count()
    concurrency,  \* the Vec<usize> `concurrency`, indexed 0..count-1
    generators,   \* opt.generators
    pc,           \* position of nexmark_benchmark / create_nexmark_functions
    i,            \* loop variable of `for i in (0..count).rev()`
    member,       \* the JoinHandles of the current group: j -> task state
    task,         \* the JoinHandles of the generator tasks: g -> task state
    calls,        \* bag of compute-platform control calls issued so far
    failed,       \* the calls that returned a platform error
    ret,          \* what nexmark_benchmark returned to its caller
    faults,       \* number of platform errors injected so far
    \* ---- compare_schema (context.rs) ----
    schema1,      \* first argument
    schema2,      \* second argument
    cmp,          \* the results of the two calls, once made
    \* ---- partition feeder (context.rs) ----
    plan,         \* self.plan, the operator tree with its leaves' data
    before,       \* self.plan as it was when the feed was called
    feedOp,       \* which feed_* was called
    feedArgs,     \* its partition sets, in argument order
    feedRet,      \* how the call ended
    binds,        \* the set_partitions calls it made, in order
    \* ---- marshal / unmarshal (context.rs) ----
    ctx,          \* the ExecutionContext on the client side
    encoding,     \* the codec handed to marshal
    wire,         \* the envelope string: marshal's result, or one received
    origin,       \* where the envelope came from
    back,         \* unmarshal's result
    \* ---- plan resolution (context.rs) ----
    held,         \* the ExecutionContext a function holds: plan, plan_s3_idx
    fetches,      \* number of get_object requests sent to the overflow store
    loaded,       \* an earlier call fetched the plan successfully
    lastCall,     \* the last operation called on `held` and how it ended
    ncalls        \* number of operations called so far

launchVars == <<count, concurrency, generators, pc, i, member, task, calls,
                failed, ret, faults>>

schemaVars == <<schema1, schema2, cmp>>

feedVars == <<plan, before, feedOp, feedArgs, feedRet, binds>>

ctxVars == <<ctx, encoding, wire, origin, back>>

planVars == <<held, fetches, loaded, lastCall, ncalls>>

vars == <<launchVars, schemaVars, feedVars, ctxVars, planVars>>

nonLaunchVars == <<schemaVars, feedVars, ctxVars, planVars>>
nonSchemaVars == <<launchVars, feedVars, ctxVars, planVars>>
nonFeedVars == <<launchVars, schemaVars, ctxVars, planVars>>
nonCtxVars == <<launchVars, schemaVars, feedVars, planVars>>
nonPlanVars == <<launchVars, schemaVars, feedVars, ctxVars>>

--------------------------------------------------------------------------
(* Bounds of the model.                                                   *)

\* Largest DAG whose nodes take every combination of concurrency levels.
MaxNodes == 2
\* FLOCK_FUNCTION_CONCURRENCY, the group width G: a deployment setting read
\* from the configuration, whose value is not fixed by distributed.rs.
FLOCK_FUNCTION_CONCURRENCY == 2
\* Largest opt.generators.
MaxGenerators == 2
\* Largest number of platform calls that fail in one launch.
MaxFaults == 1

\* assert!(count < 100)
MaxDagNodes == 100

\* The concurrency levels a DAG node may carry.
ConcurrencyLevels == {1, 2, 3}
\* DAG sizes around the guardrail; their nodes all carry concurrency 2.
GuardrailCounts == {MaxDagNodes - 1, MaxDagNodes, MaxDagNodes + 1}

G == FLOCK_FUNCTION_CONCURRENCY

--------------------------------------------------------------------------
(* Function names: format!("q{}-{:02}", ..) and format!("{}-{:02}", ..).   *)

DigitChar(d) ==
    CASE d = 0 -> "0" [] d = 1 -> "1" [] d = 2 -> "2" [] d = 3 -> "3"
      [] d = 4 -> "4" [] d = 5 -> "5" [] d = 6 -> "6" [] d = 7 -> "7"
      [] d = 8 -> "8" [] d = 9 -> "9"

RECURSIVE Decimal(_)
Decimal(n) ==
    IF n < 10 THEN <<DigitChar(n)>>
    ELSE Decimal(n \div 10) \o <<DigitChar(n % 10)>>

\* {:02}: decimal, zero-padded to a width of at least two.
Fmt02(n) == IF n < 10 THEN <<"0">> \o Decimal(n) ELSE Decimal(n)

\* format!("q{}-{:02}", opt.query_number, i): the query code is one token.
GroupName(n) == <<"q", "-">> \o Fmt02(n)

\* (every member under the group's own name)
MemberName_NoSuffix(n, j) == GroupName(n)

\* format!("{}-{:02}", name, j)
MemberName(n, j) == GroupName(n) \o <<"-">> \o Fmt02(j)

\* The name of the node's own context, as the launcher logs it.
ContextName(n) == GroupName(n)

\* The generators' target: format!("q{}-{:02}", opt.query_number, 0).
GeneratorTarget == GroupName(0)

--------------------------------------------------------------------------
(* Compute-platform control calls.                                        *)

CreateFunction(name) == [op |-> "create_function", name |-> name, arg |-> 0]
SetConcurrency(name, level) ==
    [op |-> "set_concurrency", name |-> name, arg |-> level]
InvokeFunction(name, g) == [op |-> "invoke_function", name |-> name, arg |-> g]

Issue(call) == calls (+) SetToBag({call})

\* A platform call returns success, or (within the fault budget) an error.
Outcomes == IF faults < MaxFaults THEN {TRUE, FALSE} ELSE {TRUE}

Finished == {"ok", "err"}

NoMembers == [j \in 0..(G - 1) |-> "idle"]

Ok == [tag |-> "Ok", value |-> "unit"]
Err(call) == [tag |-> "Err", error |-> call]
NotReturned == [tag |-> "none"]

--------------------------------------------------------------------------
(* Initial state: a DAG, and the benchmark options.                       *)

Dags ==
    UNION {{[n |-> n, c |-> f] : f \in [0..(n - 1) -> ConcurrencyLevels]} :
           n \in 1..MaxNodes}
    \cup {[n |-> n, c |-> [k \in 0..(n - 1) |-> 2]] : n \in GuardrailCounts}

\* The idle values of the three components.
LaunchIdle ==
    /\ count = 0 /\ concurrency = <<>> /\ generators = 0
    /\ pc = "idle" /\ i = 0 /\ member = <<>> /\ task = <<>>
    /\ calls = EmptyBag /\ failed = {} /\ ret = [tag |-> "none"]
    /\ faults = 0

SchemaIdle == schema1 = <<>> /\ schema2 = <<>> /\ cmp = [called |-> FALSE]

FeedIdle ==
    /\ plan = <<>> /\ before = <<>> /\ feedOp = "none" /\ feedArgs = <<>>
    /\ feedRet = "none" /\ binds = <<>>

CtxIdle ==
    /\ ctx = <<>> /\ encoding = "None" /\ wire = [tag |-> "none"]
    /\ origin = "none" /\ back = [tag |-> "none"]

PlanIdle ==
    /\ held = <<>> /\ fetches = 0 /\ loaded = FALSE
    /\ lastCall = [op |-> "none"] /\ ncalls = 0

InitLaunch ==
    /\ SchemaIdle /\ FeedIdle /\ CtxIdle /\ PlanIdle
    /\ \E d \in Dags : count = d.n /\ concurrency = d.c
    /\ generators \in 1..MaxGenerators
    /\ pc = "start"
    /\ i = 0
    /\ member = NoMembers
    /\ task = [g \in 0..(generators - 1) |-> "unspawned"]
    /\ calls = EmptyBag
    /\ failed = {}
    /\ ret = NotReturned
    /\ faults = 0

--------------------------------------------------------------------------
(* create_nexmark_functions                                               *)

\* (the guardrail off by one: a 100-node DAG passes)
GuardrailHolds_OffByOne(n) == n <= MaxDagNodes

\* assert!(count < 100)
GuardrailHolds(n) == n < MaxDagNodes

\* let count = dag.node_count(); assert!(count < 100);
Guardrail ==
    /\ pc = "start"
    /\ IF GuardrailHolds(count)
       THEN pc' = "loop" /\ i' = count - 1
       ELSE pc' = "panicked" /\ i' = i
    /\ UNCHANGED nonLaunchVars
    /\ UNCHANGED <<count, concurrency, generators, member, task, calls,
                   failed, ret, faults>>

\* (the branches swapped: a group for the nodes of concurrency > 1)
IsGroupNode_Swapped(n) == concurrency[n] > 1

\* if concurrency[i] == 1 { group } else { single function }
IsGroupNode(n) == concurrency[n] = 1

\* for i in (0..count).rev(), the group branch: the first tokio::spawn.
EnterGroup ==
    /\ pc = "loop" /\ i >= 0 /\ IsGroupNode(i)
    /\ pc' = "spawn_members"
    /\ UNCHANGED nonLaunchVars
    /\ UNCHANGED <<count, concurrency, generators, i, member, task, calls,
                   failed, ret, faults>>

\* (0..*FLOCK_FUNCTION_CONCURRENCY).map(|j| tokio::spawn(..)).collect()
SpawnMember ==
    /\ pc = "spawn_members"
    /\ \E j \in 0..(G - 1) :
         /\ member[j] = "idle"
         /\ \A k \in 0..(j - 1) : member[k] # "idle"
         /\ member' = [member EXCEPT ![j] = "spawned"]
         /\ pc' = IF j = G - 1 THEN "join_members" ELSE "spawn_members"
    /\ UNCHANGED nonLaunchVars
    /\ UNCHANGED <<count, concurrency, generators, i, task, calls, failed,
                   ret, faults>>

\* lambda::create_function(&ctx, memory_size, &architecture).await?
MemberCreate(j) ==
    /\ member[j] = "spawned"
    /\ \E ok \in Outcomes :
         LET call == CreateFunction(MemberName(i, j)) IN
         /\ calls' = Issue(call)
         /\ member' = [member EXCEPT ![j] = IF ok THEN "created" ELSE "err"]
         /\ failed' = IF ok THEN failed ELSE failed \cup {call}
         /\ faults' = IF ok THEN faults ELSE faults + 1
    /\ UNCHANGED nonLaunchVars
    /\ UNCHANGED <<count, concurrency, generators, pc, i, task, ret>>

\* lambda::set_concurrency(&ctx.name, 1).await
MemberSetConcurrency(j) ==
    /\ member[j] = "created"
    /\ \E ok \in Outcomes :
         LET call == SetConcurrency(MemberName(i, j), 1) IN
         /\ calls' = Issue(call)
         /\ member' = [member EXCEPT ![j] = IF ok THEN "ok" ELSE "err"]
         /\ failed' = IF ok THEN failed ELSE failed \cup {call}
         /\ faults' = IF ok THEN faults ELSE faults + 1
    /\ UNCHANGED nonLaunchVars
    /\ UNCHANGED <<count, concurrency, generators, pc, i, task, ret>>

\* (a short-circuiting join, as try_join_all: the first error ends the wait)
AllResolved_ShortCircuit(handles) ==
    \/ \E h \in DOMAIN handles : handles[h] = "err"
    \/ \A h \in DOMAIN handles : handles[h] \in {"ok", "err"}

\* (a join that waits for the tasks to be spawned, not for their end)
AllResolved_Spawned(handles) ==
    \A h \in DOMAIN handles : handles[h] \notin {"idle", "unspawned"}

\* What join_all waits for: every handle has resolved.
AllResolved(handles) == \A h \in DOMAIN handles : handles[h] \in Finished

\* futures::future::join_all(tasks).await;  (the Vec of results is dropped)
JoinMembers ==
    /\ pc = "join_members"
    /\ AllResolved(member)
    /\ member' = NoMembers
    /\ i' = i - 1
    /\ pc' = "loop"
    /\ UNCHANGED nonLaunchVars
    /\ UNCHANGED <<count, concurrency, generators, task, calls, failed, ret,
                   faults>>

\* lambda::create_function(node.context.as_ref().unwrap(), ..).await?
CreateSingle ==
    /\ pc = "loop" /\ i >= 0 /\ ~IsGroupNode(i)
    /\ \E ok \in Outcomes :
         LET call == CreateFunction(ContextName(i)) IN
         /\ calls' = Issue(call)
         /\ failed' = IF ok THEN failed ELSE failed \cup {call}
         /\ faults' = IF ok THEN faults ELSE faults + 1
         /\ IF ok
            THEN i' = i - 1 /\ pc' = "loop" /\ ret' = ret
            ELSE i' = i /\ pc' = "returned" /\ ret' = Err(call)
    /\ UNCHANGED nonLaunchVars
    /\ UNCHANGED <<count, concurrency, generators, member, task>>

\* (the generators started without awaiting create_nexmark_functions)
MaterializationDone_NotAwaited ==
    /\ pc = "loop"
    /\ pc' = "spawn_generators"
    /\ UNCHANGED nonLaunchVars
    /\ UNCHANGED <<count, concurrency, generators, i, member, task, calls,
                   failed, ret, faults>>

\* Ok(()) of create_nexmark_functions, then `?` in nexmark_benchmark.
MaterializationDone ==
    /\ pc = "loop" /\ i < 0
    /\ pc' = "spawn_generators"
    /\ UNCHANGED nonLaunchVars
    /\ UNCHANGED <<count, concurrency, generators, i, member, task, calls,
                   failed, ret, faults>>

--------------------------------------------------------------------------
(* nexmark_benchmark: the generator fan-out                               *)

\* (0..opt.generators).map(|i| tokio::spawn(..)).collect()
SpawnGenerator ==
    /\ pc = "spawn_generators"
    /\ \E g \in 0..(generators - 1) :
         /\ task[g] = "unspawned"
         /\ \A k \in 0..(g - 1) : task[k] # "unspawned"
         /\ task' = [task EXCEPT ![g] = "spawned"]
         /\ pc' = IF g = generators - 1 THEN "join_all" ELSE "spawn_generators"
    /\ UNCHANGED nonLaunchVars
    /\ UNCHANGED <<count, concurrency, generators, i, member, calls, failed,
                   ret, faults>>

\* lambda::invoke_function(&f, &FLOCK_LAMBDA_ASYNC_CALL, Some(p)).await
GeneratorInvoke(g) ==
    /\ task[g] = "spawned"
    /\ \E ok \in Outcomes :
         LET call == InvokeFunction(GeneratorTarget, g) IN
         /\ calls' = Issue(call)
         /\ task' = [task EXCEPT ![g] = IF ok THEN "ok" ELSE "err"]
         /\ failed' = IF ok THEN failed ELSE failed \cup {call}
         /\ faults' = IF ok THEN faults ELSE faults + 1
    /\ UNCHANGED nonLaunchVars
    /\ UNCHANGED <<count, concurrency, generators, pc, i, member, ret>>

\* What nexmark_benchmark hands back after the join: Ok(()).
DriverResult(outcomes) == Ok

\* futures::future::join_all(tasks).await; Ok(())
JoinAll ==
    /\ pc = "join_all"
    /\ AllResolved(task)
    /\ ret' = DriverResult(task)
    /\ pc' = "returned"
    /\ UNCHANGED nonLaunchVars
    /\ UNCHANGED <<count, concurrency, generators, i, member, task, calls,
                   failed, faults>>

Next ==
    \/ Guardrail
    \/ EnterGroup
    \/ SpawnMember
    \/ \E j \in 0..(G - 1) : MemberCreate(j)
    \/ \E j \in 0..(G - 1) : MemberSetConcurrency(j)
    \/ JoinMembers
    \/ CreateSingle
    \/ MaterializationDone
    \/ SpawnGenerator
    \/ \E g \in 0..(generators - 1) : GeneratorInvoke(g)
    \/ JoinAll

Spec == InitLaunch /\ [][Next]_vars

--------------------------------------------------------------------------
(* compare_schema                                                         *)

\* Largest number of fields of a schema handed to compare_schema.
MaxFields == 2

\* A schema is the sequence of its fields; a field is its name (the only
\* part of a field compare_schema reads).
FieldNames == {"a", "b", "c"}

Schemas == UNION {[1..n -> FieldNames] : n \in 0..MaxFields}

\* (the field counts compared, the names unread)
compare_schema_CountOnly(s1, s2) ==
    LET pair == IF Len(s1) >= Len(s2) THEN <<s1, s2>> ELSE <<s2, s1>>
    IN Len(pair[2]) <= Len(pair[1])

\* fn compare_schema(schema1: SchemaRef, schema2: SchemaRef) -> bool
compare_schema(s1, s2) ==
    LET pair == IF Len(s1) >= Len(s2) THEN <<s1, s2>> ELSE <<s2, s1>>
        superset == pair[1]
        subset == pair[2]
        fields == {superset[k] : k \in 1..Len(superset)}
    IN \A k \in 1..Len(subset) : subset[k] \in fields

InitSchema ==
    /\ LaunchIdle /\ FeedIdle /\ CtxIdle /\ PlanIdle
    /\ schema1 \in Schemas
    /\ schema2 \in Schemas
    /\ cmp = [called |-> FALSE]

\* compare_schema(schema1, schema2) and compare_schema(schema2, schema1)
CompareSchemas ==
    /\ ~cmp.called
    /\ cmp' = [called |-> TRUE,
               forward |-> compare_schema(schema1, schema2),
               backward |-> compare_schema(schema2, schema1)]
    /\ UNCHANGED <<schema1, schema2>>
    /\ UNCHANGED nonSchemaVars

NextSchema == CompareSchemas

SpecSchema == InitSchema /\ [][NextSchema]_vars

--------------------------------------------------------------------------
(* The physical plan: a tree of operators.  A node is addressed by its     *)
(* path, the sequence of child positions from the root.                   *)

\* The schemas of the leaf scans and of the delivered batches.
FeedSchemas == {<<>>, <<"a", "b">>, <<"c", "d">>, <<"a", "b", "c">>}

\* A record batch is its schema; its rows play no part in the binding.
Batch(s) == [schema |-> s]

\* Vec<Vec<RecordBatch>>: no partition, one empty partition, or one
\* partition of one batch.
PartitionSets == {<<>>, << <<>> >>} \cup {<< <<Batch(s)>> >> : s \in FeedSchemas}

MemoryExec(s, data) ==
    [op |-> "memory_exec", schema |-> s, partitions |-> data, children |-> <<>>]

\* A childless operator that is not a MemoryExec.
EmptyExec ==
    [op |-> "empty_exec", schema |-> <<>>, partitions |-> <<>>, children |-> <<>>]

Unary(c) == [op |-> "coalesce_batches_exec", children |-> <<c>>]
Join(l, r) == [op |-> "hash_join_exec", children |-> <<l, r>>]

\* The leaves of a plan that was just deserialized hold no data (warm =
\* FALSE); those of a context kept from the previous invocation hold that
\* invocation's batches (warm = TRUE).
Leaves(warm) ==
    {MemoryExec(s, IF warm THEN << <<Batch(s)>> >> ELSE <<>>) : s \in FeedSchemas}
    \cup {EmptyExec}

Plans(warm) ==
    LET D0 == Leaves(warm)
        U1 == {Unary(c) : c \in D0}
        J1 == {Join(l, r) : l \in D0, r \in D0}
        U2 == {Unary(c) : c \in U1 \cup J1}
        J2 == {Join(l, r) : l \in D0 \cup U1, r \in D0 \cup U1} \ J1
    IN D0 \cup U1 \cup J1 \cup U2 \cup J2

RECURSIVE NodeAt(_, _)
NodeAt(p, path) ==
    IF path = <<>> THEN p ELSE NodeAt(p.children[Head(path)], Tail(path))

\* MemoryExec::set_partitions through Arc::get_mut_unchecked: the node is
\* changed in place, inside the tree the context holds.
RECURSIVE SetPartitions(_, _, _)
SetPartitions(p, path, data) ==
    IF path = <<>> THEN [p EXCEPT !.partitions = data]
    ELSE [p EXCEPT !.children[Head(path)] =
              SetPartitions(@, Tail(path), data)]

\* (only the first child is queued)
PushBackChildren_FirstOnly(queue, path, p) ==
    queue \o [k \in 1..(IF Len(p.children) >= 1 THEN 1 ELSE 0) |-> path \o <<k>>]

\* p.children().iter().enumerate().for_each(|(i, _)| queue.push_back(..))
PushBackChildren(queue, path, p) ==
    queue \o [k \in 1..Len(p.children) |-> path \o <<k>>]

(* feed_one_source *)

RECURSIVE BfsOne(_, _, _)
BfsOne(p, queue, partitions) ==
    IF queue = <<>> THEN [plan |-> p, ret |-> "Ok", binds |-> <<>>]
    ELSE LET path == Head(queue)
             node == NodeAt(p, path)
         IN IF node.children = <<>>
            THEN IF node.op = "memory_exec"
                 THEN [plan |-> SetPartitions(p, path, partitions),
                       ret |-> "Ok",
                       binds |-> <<[path |-> path, source |-> 1]>>]
                 ELSE [plan |-> p, ret |-> "panic", binds |-> <<>>]
            ELSE BfsOne(p, PushBackChildren(Tail(queue), path, node),
                        partitions)

\* (a depth-first walk: the children go to the front of the queue)
RECURSIVE DfsOne(_, _, _)
DfsOne(p, queue, partitions) ==
    IF queue = <<>> THEN [plan |-> p, ret |-> "Ok", binds |-> <<>>]
    ELSE LET path == Head(queue)
             node == NodeAt(p, path)
         IN IF node.children = <<>>
            THEN IF node.op = "memory_exec"
                 THEN [plan |-> SetPartitions(p, path, partitions),
                       ret |-> "Ok",
                       binds |-> <<[path |-> path, source |-> 1]>>]
                 ELSE [plan |-> p, ret |-> "panic", binds |-> <<>>]
            ELSE DfsOne(p, PushBackChildren(<<>>, path, node) \o Tail(queue),
                        partitions)

feed_one_source_DepthFirst(p, partitions) == DfsOne(p, <<<<>>>>, partitions)

\* pub async fn feed_one_source(&mut self, partitions)
feed_one_source(p, partitions) == BfsOne(p, <<<<>>>>, partitions)

(* feed_two_source, feed_data_sources *)

\* partition[0][0]: the indexing panics when there is no such batch.
HasFirstBatch(partition) == Len(partition) >= 1 /\ Len(partition[1]) >= 1

\* (the candidates taken by position: the first one, its schema unread)
RECURSIVE FirstMatch_Positional(_, _, _)
FirstMatch_Positional(node, sources, k) ==
    IF k > Len(sources) THEN [kind |-> "none", source |-> 0]
    ELSE [kind |-> "bind", source |-> k]

\* (no break: the last matching candidate stays bound)
FirstMatch_LastMatch(node, sources, k) ==
    LET ms == {j \in k..Len(sources) :
                 /\ HasFirstBatch(sources[j])
                 /\ compare_schema(node.schema, sources[j][1][1].schema)}
    IN IF ms = {} THEN [kind |-> "none", source |-> 0]
       ELSE [kind |-> "bind",
             source |-> CHOOSE j \in ms : \A l \in ms : l <= j]

\* (a candidate without a first batch is passed over)
RECURSIVE FirstMatch_SkipEmpty(_, _, _)
FirstMatch_SkipEmpty(node, sources, k) ==
    IF k > Len(sources) THEN [kind |-> "none", source |-> 0]
    ELSE IF ~HasFirstBatch(sources[k])
         THEN FirstMatch_SkipEmpty(node, sources, k + 1)
    ELSE IF compare_schema(node.schema, sources[k][1][1].schema)
         THEN [kind |-> "bind", source |-> k]
    ELSE FirstMatch_SkipEmpty(node, sources, k + 1)

\* for partition in sources { if compare_schema(..) { ..; break; } }
\* from candidate k on: the first candidate whose first batch matches the
\* leaf's schema, none, or the panic of partition[0][0].
RECURSIVE FirstMatch(_, _, _)
FirstMatch(node, sources, k) ==
    IF k > Len(sources) THEN [kind |-> "none", source |-> 0]
    ELSE IF ~HasFirstBatch(sources[k]) THEN [kind |-> "panic", source |-> k]
    ELSE IF compare_schema(node.schema, sources[k][1][1].schema)
         THEN [kind |-> "bind", source |-> k]
    ELSE FirstMatch(node, sources, k + 1)

\* (a leaf that no candidate matches ends the feed with an error)
RECURSIVE BfsSources_NoMatchFails(_, _, _, _)
BfsSources_NoMatchFails(p, queue, sources, log) ==
    IF queue = <<>> THEN [plan |-> p, ret |-> "Ok", binds |-> log]
    ELSE LET path == Head(queue)
             node == NodeAt(p, path)
         IN IF node.children = <<>>
            THEN LET m == FirstMatch(node, sources, 1)
                 IN IF m.kind = "none"
                    THEN [plan |-> p, ret |-> "Err", binds |-> log]
                    ELSE IF m.kind = "bind" /\ node.op = "memory_exec"
                    THEN BfsSources_NoMatchFails(
                           SetPartitions(p, path, sources[m.source]),
                           Tail(queue), sources,
                           Append(log, [path |-> path, source |-> m.source]))
                    ELSE [plan |-> p, ret |-> "panic", binds |-> log]
            ELSE BfsSources_NoMatchFails(
                   p, PushBackChildren(Tail(queue), path, node), sources, log)

\* The while loop shared by feed_two_source and feed_data_sources.
RECURSIVE BfsSources(_, _, _, _)
BfsSources(p, queue, sources, log) ==
    IF queue = <<>> THEN [plan |-> p, ret |-> "Ok", binds |-> log]
    ELSE LET path == Head(queue)
             node == NodeAt(p, path)
         IN IF node.children = <<>>
            THEN LET m == FirstMatch(node, sources, 1)
                 IN IF m.kind = "none"
                    THEN BfsSources(p, Tail(queue), sources, log)
                    ELSE IF m.kind = "bind" /\ node.op = "memory_exec"
                    THEN BfsSources(
                           SetPartitions(p, path, sources[m.source]),
                           Tail(queue), sources,
                           Append(log, [path |-> path, source |-> m.source]))
                    ELSE [plan |-> p, ret |-> "panic", binds |-> log]
            ELSE BfsSources(p, PushBackChildren(Tail(queue), path, node),
                            sources, log)

\* pub async fn feed_two_source(&mut self, left, right)
feed_two_source(p, left, right) ==
    BfsSources(p, <<<<>>>>, <<left, right>>, <<>>)

\* pub async fn feed_data_sources(&mut self, sources)
feed_data_sources(p, sources) == BfsSources(p, <<<<>>>>, sources, <<>>)

\* Largest number of partition sets handed to feed_data_sources.
MaxSources == 2

InitFeed ==
    /\ LaunchIdle /\ SchemaIdle /\ CtxIdle /\ PlanIdle
    /\ \E warm \in BOOLEAN : plan \in Plans(warm)
    /\ before = plan
    /\ feedOp = "none"
    /\ feedArgs = <<>>
    /\ feedRet = "none"
    /\ binds = <<>>

ApplyFeed(op, args, result) ==
    /\ feedOp = "none"
    /\ feedOp' = op
    /\ feedArgs' = args
    /\ before' = plan
    /\ plan' = result.plan
    /\ feedRet' = result.ret
    /\ binds' = result.binds
    /\ UNCHANGED nonFeedVars

FeedOneSource ==
    \E partitions \in PartitionSets :
        ApplyFeed("feed_one_source", <<partitions>>,
                  feed_one_source(plan, partitions))

FeedTwoSource ==
    \E left \in PartitionSets, right \in PartitionSets :
        ApplyFeed("feed_two_source", <<left, right>>,
                  feed_two_source(plan, left, right))

FeedDataSources ==
    \E n \in 0..MaxSources :
        \E sources \in [1..n -> PartitionSets] :
            ApplyFeed("feed_data_sources", sources,
                      feed_data_sources(plan, sources))

NextFeed ==
    \/ FeedOneSource
    \/ FeedTwoSource
    \/ FeedDataSources

SpecFeed == InitFeed /\ [][NextFeed]_vars

--------------------------------------------------------------------------
(* The Execution Context and its wire form.  A byte string is a sequence   *)
(* of tokens.                                                             *)

Lambda(name) == [kind |-> "Lambda", name |-> name]
Group(name, size) == [kind |-> "Group", name |-> name, size |-> size]
Sink(type) == [kind |-> "Sink", sink |-> type]

None == [some |-> FALSE]
Some(bucket, key) == [some |-> TRUE, bucket |-> bucket, key |-> key]

ExecutionContext(p, idx, name, next) ==
    [plan |-> p, plan_s3_idx |-> idx, name |-> name, next |-> next]

\* The contexts handed to marshal.
CtxPlans ==
    {EmptyExec,
     MemoryExec(<<"a", "b">>, <<>>),
     MemoryExec(<<"a", "b">>, << <<Batch(<<"a", "b">>)>> >>),
     Unary(MemoryExec(<<"c", "d">>, <<>>)),
     Join(MemoryExec(<<"a", "b">>, <<>>),
          MemoryExec(<<"c", "d">>, << <<Batch(<<"c", "d">>)>> >>))}

CtxNames == {<<>>, GroupName(0), MemberName(1, 0)}

CtxNexts ==
    {Lambda(GroupName(1)), Group(GroupName(1), G), Group(GroupName(12), 12),
     Sink("Empty"), Sink("S3")}

Contexts ==
    {ExecutionContext(p, idx, name, next) :
        p \in CtxPlans, idx \in {None, Some("bucket", "key")},
        name \in CtxNames, next \in CtxNexts}

(* serde: Serialize *)

\* A string between quotes; its characters are tokens.
SerString(str) == <<"\"">> \o str \o <<"\"">>

\* The plan's typetag form.  The record batches of a MemoryExec are not
\* part of it.
RECURSIVE SerPlan(_)
SerPlan(p) ==
    <<"{", "execution_plan", ":", p.op>> \o
    (CASE p.op \in {"memory_exec", "empty_exec"} ->
            <<",", "schema", ":", "[">> \o p.schema \o <<"]">>
       [] p.op = "coalesce_batches_exec" ->
            <<",", "input", ":">> \o SerPlan(p.children[1])
       [] p.op = "hash_join_exec" ->
            <<",", "left", ":">> \o SerPlan(p.children[1]) \o
            <<",", "right", ":">> \o SerPlan(p.children[2]))
    \o <<"}">>

SerS3(idx) ==
    IF idx.some THEN <<"[", idx.bucket, ",", idx.key, "]">> ELSE <<"null">>

SerNext(next) ==
    CASE next.kind = "Lambda" ->
            <<"{", "Lambda", ":">> \o SerString(next.name) \o <<"}">>
      [] next.kind = "Group" ->
            <<"{", "Group", ":", "[">> \o SerString(next.name) \o <<",">>
            \o Decimal(next.size) \o <<"]", "}">>
      [] next.kind = "Sink" -> <<"{", "Sink", ":", next.sink, "}">>

\* serde_json::to_vec(&self) of an ExecutionContext
SerCtx(c) ==
    <<"{", "plan", ":">> \o SerPlan(c.plan) \o
    <<",", "plan_s3_idx", ":">> \o SerS3(c.plan_s3_idx) \o
    <<",", "name", ":">> \o SerString(c.name) \o
    <<",", "next", ":">> \o SerNext(c.next) \o <<"}">>

(* serde: Deserialize.  A parser takes a token sequence and gives the      *)
(* value read and the tokens left, or fails.                              *)

Fail == [ok |-> FALSE]
Parsed(v, rest) == [ok |-> TRUE, val |-> v, rest |-> rest]

Drop(t, n) == SubSeq(t, n + 1, Len(t))

\* The tokens start with the literal `lit`.
Expect(t, lit) ==
    IF Len(t) >= Len(lit) /\ SubSeq(t, 1, Len(lit)) = lit
    THEN Parsed(lit, Drop(t, Len(lit)))
    ELSE Fail

\* The position of the first token `tok`, or 0.
IndexOf(t, tok) ==
    IF \E k \in 1..Len(t) : t[k] = tok
    THEN CHOOSE k \in 1..Len(t) : t[k] = tok /\ \A j \in 1..(k - 1) : t[j] # tok
    ELSE 0

\* The tokens up to the first `close`, which is consumed.
Until(t, close) ==
    LET k == IndexOf(t, close)
    IN IF k = 0 THEN Fail ELSE Parsed(SubSeq(t, 1, k - 1), Drop(t, k))

\* The parse `r`, taken once, and then the parse `K` of what it left; a
\* failure ends the parse.
Then(r, K(_)) ==
    CHOOSE out \in {IF x.ok THEN K(x) ELSE Fail : x \in {r}} : TRUE

ParseString(t) ==
    Then(Expect(t, <<"\"">>), LAMBDA open : Until(open.rest, "\""))

Digits == {"0", "1", "2", "3", "4", "5", "6", "7", "8", "9"}
DigitVal(ch) == CHOOSE d \in 0..9 : DigitChar(d) = ch

RECURSIVE NatOf(_)
NatOf(ds) ==
    IF Len(ds) = 1 THEN DigitVal(ds[1])
    ELSE 10 * NatOf(SubSeq(ds, 1, Len(ds) - 1)) + DigitVal(ds[Len(ds)])

\* A decimal number closed by `close`.
ParseNat(t, close) ==
    Then(Until(t, close), LAMBDA u :
        IF u.val = <<>> \/ \E k \in 1..Len(u.val) : u.val[k] \notin Digits
        THEN Fail
        ELSE Parsed(NatOf(u.val), u.rest))

RECURSIVE ParsePlan(_)
ParsePlan(t) ==
    Then(Expect(t, <<"{", "execution_plan", ":">>), LAMBDA h :
        IF h.rest = <<>> THEN Fail
        ELSE LET op == Head(h.rest)
                 r == Tail(h.rest)
             IN CASE op \in {"memory_exec", "empty_exec"} ->
                     Then(Expect(r, <<",", "schema", ":", "[">>), LAMBDA a :
                     Then(Until(a.rest, "]"), LAMBDA sch :
                     Then(Expect(sch.rest, <<"}">>), LAMBDA e :
                         Parsed([op |-> op, schema |-> sch.val,
                                 partitions |-> <<>>, children |-> <<>>],
                                e.rest))))
                  [] op = "coalesce_batches_exec" ->
                     Then(Expect(r, <<",", "input", ":">>), LAMBDA a :
                     Then(ParsePlan(a.rest), LAMBDA c :
                     Then(Expect(c.rest, <<"}">>), LAMBDA e :
                         Parsed(Unary(c.val), e.rest))))
                  [] op = "hash_join_exec" ->
                     Then(Expect(r, <<",", "left", ":">>), LAMBDA a :
                     Then(ParsePlan(a.rest), LAMBDA l :
                     Then(Expect(l.rest, <<",", "right", ":">>), LAMBDA b :
                     Then(ParsePlan(b.rest), LAMBDA rr :
                     Then(Expect(rr.rest, <<"}">>), LAMBDA e :
                         Parsed(Join(l.val, rr.val), e.rest))))))
                  [] OTHER -> Fail)

ParseS3(t) ==
    IF Len(t) >= 1 /\ t[1] = "null" THEN Parsed(None, Drop(t, 1))
    ELSE IF /\ Len(t) >= 5
            /\ t[1] = "[" /\ t[3] = "," /\ t[5] = "]"
         THEN Parsed(Some(t[2], t[4]), Drop(t, 5))
    ELSE Fail

ParseNext(t) ==
    Then(Expect(t, <<"{">>), LAMBDA h :
        IF Len(h.rest) < 2 \/ h.rest[2] # ":" THEN Fail
        ELSE LET variant == h.rest[1]
                 r == Drop(h.rest, 2)
             IN CASE variant = "Lambda" ->
                     Then(ParseString(r), LAMBDA n :
                     Then(Expect(n.rest, <<"}">>), LAMBDA e :
                         Parsed(Lambda(n.val), e.rest)))
                  [] variant = "Group" ->
                     Then(Expect(r, <<"[">>), LAMBDA a :
                     Then(ParseString(a.rest), LAMBDA n :
                     Then(Expect(n.rest, <<",">>), LAMBDA c :
                     Then(ParseNat(c.rest, "]"), LAMBDA z :
                     Then(Expect(z.rest, <<"}">>), LAMBDA e :
                         Parsed(Group(n.val, z.val), e.rest))))))
                  [] variant = "Sink" ->
                     IF Len(r) >= 2 /\ r[2] = "}"
                     THEN Parsed(Sink(r[1]), Drop(r, 2))
                     ELSE Fail
                  [] OTHER -> Fail)

\* serde_json::from_slice::<ExecutionContext>: the whole input is one
\* context.
ParseCtx(t) ==
    Then(Expect(t, <<"{", "plan", ":">>), LAMBDA a :
    Then(ParsePlan(a.rest), LAMBDA p :
    Then(Expect(p.rest, <<",", "plan_s3_idx", ":">>), LAMBDA b :
    Then(ParseS3(b.rest), LAMBDA x :
    Then(Expect(x.rest, <<",", "name", ":">>), LAMBDA c :
    Then(ParseString(c.rest), LAMBDA n :
    Then(Expect(n.rest, <<",", "next", ":">>), LAMBDA d :
    Then(ParseNext(d.rest), LAMBDA y :
    Then(Expect(y.rest, <<"}">>), LAMBDA e :
        IF e.rest = <<>>
        THEN Parsed(ExecutionContext(p.val, x.val, n.val, y.val), <<>>)
        ELSE Fail)))))))))

(* Encoding (super::encoding) *)

\* The codecs marshal and unmarshal handle.
Supported == {"None", "Snappy", "Lz4", "Zstd"}
Compressing == {"Snappy", "Lz4", "Zstd"}
\* The variants of Encoding: the handled ones, and one standing for any
\* variant that falls to the `_ =>` arm.
EncodingVariants == Supported \cup {"Unsupported"}

\* The frame each codec puts before its output.
Magic(codec) ==
    CASE codec = "Snappy" -> "sNaPpY" [] codec = "Lz4" -> "LZ4F"
      [] codec = "Zstd" -> "ZSTD" [] OTHER -> "raw"

\* Runs of up to nine equal tokens become <<length, token>>.
RECURSIVE RunLength(_, _)
RunLength(bytes, k) ==
    IF k < Len(bytes) /\ k < 9 /\ bytes[k + 1] = bytes[1]
    THEN RunLength(bytes, k + 1) ELSE k

RECURSIVE PackRuns(_)
PackRuns(bytes) ==
    IF bytes = <<>> THEN <<>>
    ELSE LET n == RunLength(bytes, 1)
         IN <<DigitChar(n), bytes[1]>> \o PackRuns(Drop(bytes, n))

RECURSIVE UnpackRuns(_)
UnpackRuns(bytes) ==
    IF bytes = <<>> THEN Parsed(<<>>, <<>>)
    ELSE IF Len(bytes) < 2 \/ bytes[1] \notin (Digits \ {"0"}) THEN Fail
    ELSE Then(UnpackRuns(Drop(bytes, 2)), LAMBDA tl :
             Parsed([k \in 1..DigitVal(bytes[1]) |-> bytes[2]] \o tl.val, <<>>))

\* The input is packed in blocks of sixteen tokens.
RECURSIVE Pack(_)
Pack(bytes) ==
    IF Len(bytes) <= 16 THEN PackRuns(bytes)
    ELSE PackRuns(SubSeq(bytes, 1, 16)) \o Pack(Drop(bytes, 16))

\* Sixteen tokens are eight runs.
RECURSIVE Unpack(_)
Unpack(bytes) ==
    IF Len(bytes) <= 16 THEN UnpackRuns(bytes)
    ELSE Then(UnpackRuns(SubSeq(bytes, 1, 16)), LAMBDA hd :
         Then(Unpack(Drop(bytes, 16)), LAMBDA tl :
             Parsed(hd.val \o tl.val, <<>>)))

\* Encoding::compress
compress(codec, bytes) == <<Magic(codec)>> \o Pack(bytes)

\* Encoding::decompress
decompress(codec, bytes) ==
    IF bytes # <<>> /\ bytes[1] = Magic(codec)
    THEN Unpack(Tail(bytes)) ELSE Fail

(* CloudEnvironment *)

\* serde_json::to_string(&CloudEnvironment { context, encoding })
SerEnv(context, tag) ==
    <<"{", "context", ":", "[">> \o context \o
    <<"]", ",", "encoding", ":", tag, "}">>

\* serde_json::from_str::<CloudEnvironment>: the byte array lies between
\* the fixed head and the fixed tail; the tag must name a variant.
ParseEnv(str) ==
    LET n == Len(str)
    IN IF /\ n >= 10
          /\ SubSeq(str, 1, 4) = <<"{", "context", ":", "[">>
          /\ SubSeq(str, n - 5, n - 2) = <<"]", ",", "encoding", ":">>
          /\ str[n] = "}"
          /\ str[n - 1] \in EncodingVariants
       THEN Parsed([context |-> SubSeq(str, 5, n - 6), encoding |-> str[n - 1]],
                   <<>>)
       ELSE Fail

(* marshal / unmarshal *)

Returned(v) == [tag |-> "Ok", value |-> v]
DecodeError == [tag |-> "Err", error |-> "decode"]
Unimplemented == [tag |-> "panic", message |-> "not implemented"]

\* (the `_ =>` arm treated like Encoding::None)
marshal_FallbackRaw(c, codec) ==
    IF codec \in Compressing
    THEN Returned(SerEnv(compress(codec, SerCtx(c)), codec))
    ELSE Returned(SerEnv(SerCtx(c), codec))

\* pub fn marshal(&self, encoding: Encoding) -> Result<String>
marshal(c, codec) ==
    CASE codec \in Compressing ->
            Returned(SerEnv(compress(codec, SerCtx(c)), codec))
      [] codec = "None" -> Returned(SerEnv(SerCtx(c), codec))
      [] OTHER -> Unimplemented

\* (the context bytes read as they are, whatever the codec)
unmarshal_NoDecompress(str) ==
    LET env == ParseEnv(str)
    IN IF ~env.ok THEN DecodeError
       ELSE IF env.val.encoding \notin Supported THEN Unimplemented
       ELSE LET c == ParseCtx(env.val.context)
            IN IF c.ok THEN Returned(c.val) ELSE DecodeError

\* (the payload's errors unwrapped instead of returned)
unmarshal_UnwrapPayload(str) ==
    LET env == ParseEnv(str)
        unwrapped == [tag |-> "panic", message |-> "unwrap on Err"]
    IN IF ~env.ok THEN DecodeError
       ELSE CASE env.val.encoding \in Compressing ->
                 LET encoded == decompress(env.val.encoding, env.val.context)
                     c == IF encoded.ok THEN ParseCtx(encoded.val) ELSE Fail
                 IN IF c.ok THEN Returned(c.val) ELSE unwrapped
              [] env.val.encoding = "None" ->
                 LET c == ParseCtx(env.val.context)
                 IN IF c.ok THEN Returned(c.val) ELSE unwrapped
              [] OTHER -> Unimplemented

\* pub fn unmarshal(s: &str) -> Result<ExecutionContext>
unmarshal(str) ==
    LET env == ParseEnv(str)
    IN IF ~env.ok THEN DecodeError
       ELSE CASE env.val.encoding \in Compressing ->
                 LET encoded == decompress(env.val.encoding, env.val.context)
                     c == IF encoded.ok THEN ParseCtx(encoded.val) ELSE Fail
                 IN IF c.ok THEN Returned(c.val) ELSE DecodeError
              [] env.val.encoding = "None" ->
                 LET c == ParseCtx(env.val.context)
                 IN IF c.ok THEN Returned(c.val) ELSE DecodeError
              [] OTHER -> Unimplemented

\* impl PartialEq for ExecutionContext
ContextEq(a, b) ==
    /\ a.plan_s3_idx = b.plan_s3_idx
    /\ a.name = b.name
    /\ a.next = b.next
    /\ SerPlan(a.plan) = SerPlan(b.plan)

\* Envelopes that reach a function from elsewhere: any context bytes, raw
\* or compressed, under any tag, also one that names no variant.
ReceivedEnvelopes ==
    {SerEnv(bytes, tag) :
        bytes \in {SerCtx(c) : c \in {ExecutionContext(p, None, GroupName(0),
                                                       Sink("Empty")) :
                                         p \in CtxPlans}}
                  \cup {compress("Snappy", SerCtx(ExecutionContext(
                            EmptyExec, None, <<>>, Sink("Empty"))))},
        tag \in EncodingVariants \cup {"Brotli"}}

\* Inputs of unmarshal that are malformed, each with the place where it is:
\* the string is not an envelope, the context bytes are not an output of
\* the stated codec, or the bytes under the codec are not a context.
SomeContext == ExecutionContext(EmptyExec, None, GroupName(0), Sink("Empty"))

NotEnvelopes ==
    {<<"{", "context">>,
     SerCtx(SomeContext),
     <<"{", "context", ":", "[">> \o SerCtx(SomeContext) \o <<"]", "}">>,
     <<"{", "encoding", ":", "None", "}">>}

NotCompressed(codec) ==
    {<<>>,
     SerCtx(SomeContext),
     compress(IF codec = "Snappy" THEN "Lz4" ELSE "Snappy",
              SerCtx(SomeContext)),
     SubSeq(compress(codec, SerCtx(SomeContext)), 1, 4),
     <<Magic(codec), "0", "{">>}

NotContexts ==
    {<<>>,
     SubSeq(SerCtx(SomeContext), 1, Len(SerCtx(SomeContext)) - 1),
     SerCtx(SomeContext) \o <<"}">>,
     SerPlan(EmptyExec),
     <<"{", "plan", ":">> \o SerPlan(EmptyExec) \o
         <<",", "plan_s3_idx", ":", "null", ",", "name", ":">> \o
         SerString(GroupName(0)) \o
         <<",", "next", ":", "{", "Queue", ":", "Empty", "}", "}">>}

Encoded(codec, bytes) ==
    IF codec \in Compressing THEN compress(codec, bytes) ELSE bytes

MalformedInputs ==
    {[where |-> "envelope", str |-> str] : str \in NotEnvelopes}
    \cup UNION {{[where |-> "compression", str |-> SerEnv(bytes, codec)] :
                    bytes \in NotCompressed(codec)} : codec \in Compressing}
    \cup UNION {{[where |-> "context",
                  str |-> SerEnv(Encoded(codec, bytes), codec)] :
                    bytes \in NotContexts} : codec \in Supported}

MalformedPlaces == {"envelope", "compression", "context"}

InitCtx ==
    /\ LaunchIdle /\ SchemaIdle /\ FeedIdle /\ PlanIdle
    /\ ctx \in Contexts
    /\ encoding \in EncodingVariants
    /\ wire = [tag |-> "none"]
    /\ origin = "none"
    /\ back = [tag |-> "none"]

\* let json = ctx.marshal(encoding)
Marshal ==
    /\ origin = "none"
    /\ wire' = marshal(ctx, encoding)
    /\ origin' = "marshal"
    /\ UNCHANGED <<ctx, encoding, back>>
    /\ UNCHANGED nonCtxVars

\* An envelope string arrives that this context's marshal did not produce.
Receive ==
    /\ origin = "none"
    /\ \E str \in ReceivedEnvelopes : wire' = Returned(str)
    /\ origin' = "received"
    /\ UNCHANGED <<ctx, encoding, back>>
    /\ UNCHANGED nonCtxVars

\* A malformed string arrives.
ReceiveMalformed ==
    /\ origin = "none"
    /\ \E input \in MalformedInputs :
         /\ wire' = Returned(input.str)
         /\ origin' = input.where
    /\ UNCHANGED <<ctx, encoding, back>>
    /\ UNCHANGED nonCtxVars

\* ExecutionContext::unmarshal(&json)
Unmarshal ==
    /\ wire.tag = "Ok"
    /\ back.tag = "none"
    /\ back' = unmarshal(wire.value)
    /\ UNCHANGED <<ctx, encoding, wire, origin>>
    /\ UNCHANGED nonCtxVars

NextCtx ==
    \/ Marshal
    \/ Receive
    \/ ReceiveMalformed
    \/ Unmarshal

SpecCtx == InitCtx /\ [][NextCtx]_vars

--------------------------------------------------------------------------
(* Plan resolution: ExecutionContext::plan and the operations that go      *)
(* through it.                                                            *)

\* Largest number of operations called on one context.
MaxCalls == 3

\* The plans an overflow object can deserialize to.
StoredPlans ==
    {EmptyExec,
     MemoryExec(<<"a", "b">>, <<>>),
     Join(MemoryExec(<<"a", "b">>, <<>>), MemoryExec(<<"c", "d">>, <<>>))}

\* What one get_object request brings: the request fails, the response has
\* no body, reading the body fails, the content is not a plan, or the
\* content deserializes to a plan.
FetchFailures == {"request_error", "no_body", "read_error", "bad_content"}
StoreAnswers ==
    {[kind |-> k] : k \in FetchFailures}
    \cup {[kind |-> "object", plan |-> p] : p \in StoredPlans}

\* The contexts a function starts an invocation with.
HeldContexts ==
    {ExecutionContext(p, idx, GroupName(0), next) :
        p \in StoredPlans, idx \in {None, Some("bucket", "key")},
        next \in {Sink("Empty"), Lambda(GroupName(1))}}

\* The partition sets handed to the feeders of a held context: none, or
\* one partition of one batch.
HeldPartitionSets ==
    {<<>>, << <<Batch(<<"a", "b">>)>> >>, << <<Batch(<<"c", "d">>)>> >>}

\* The source lists handed to feed_data_sources on a held context.
HeldSourceLists ==
    {<<>>} \cup {<<l>> : l \in HeldPartitionSets}
    \cup {<<l, r>> : l \in HeldPartitionSets, r \in HeldPartitionSets}

\* self.plan.as_any().downcast_ref::<EmptyExec>() is Some(_)
IsEmptyExec(p) == p.op = "empty_exec"

Resolved(tag, p, fetched, failure) ==
    [tag |-> tag, plan |-> p, fetched |-> fetched, failure |-> failure]

\* (the missing overflow reference reported as an error value)
resolve_plan_ErrOnMissing(c, answer) ==
    IF IsEmptyExec(c.plan)
    THEN IF c.plan_s3_idx.some
         THEN CASE answer.kind = "request_error" ->
                      Resolved("Err", c.plan, 1, answer.kind)
                [] answer.kind \in {"no_body", "read_error", "bad_content"} ->
                      Resolved("panic", c.plan, 1, answer.kind)
                [] answer.kind = "object" ->
                      Resolved("Ok", answer.plan, 1, "none")
         ELSE Resolved("Err", c.plan, 0, "none")
    ELSE Resolved("Ok", c.plan, 0, "none")

\* (the held plan given up before the request's outcome is known)
resolve_plan_ClearsFirst(c, answer) ==
    IF IsEmptyExec(c.plan)
    THEN IF c.plan_s3_idx.some
         THEN CASE answer.kind = "request_error" ->
                      Resolved("Err", MemoryExec(<<>>, <<>>), 1, answer.kind)
                [] answer.kind \in {"no_body", "read_error", "bad_content"} ->
                      Resolved("panic", c.plan, 1, answer.kind)
                [] answer.kind = "object" ->
                      Resolved("Ok", answer.plan, 1, "none")
         ELSE Resolved("panic", c.plan, 0, "none")
    ELSE Resolved("Ok", c.plan, 0, "none")

\* pub async fn plan(&mut self) -> Result<&mut Arc<dyn ExecutionPlan>>
\*   get_object(..).await.map_err(..)?     the request error is returned
\*   .body.take().expect("body is empty")  no body: panic
\*   read_to_end(..).unwrap(), from_slice(..).unwrap() inside spawn_blocking,
\*   whose join error meets .expect("failed to load plan from S3"): panic
\* (named resolve_plan here: `plan` is the feeder's variable)
resolve_plan(c, answer) ==
    IF IsEmptyExec(c.plan)
    THEN IF c.plan_s3_idx.some
         THEN CASE answer.kind = "request_error" ->
                      Resolved("Err", c.plan, 1, answer.kind)
                [] answer.kind \in {"no_body", "read_error", "bad_content"} ->
                      Resolved("panic", c.plan, 1, answer.kind)
                [] answer.kind = "object" ->
                      Resolved("Ok", answer.plan, 1, "none")
         ELSE Resolved("panic", c.plan, 0, "none")
    ELSE Resolved("Ok", c.plan, 0, "none")

InitPlan ==
    /\ LaunchIdle /\ SchemaIdle /\ FeedIdle /\ CtxIdle
    /\ held \in HeldContexts
    /\ fetches = 0
    /\ loaded = FALSE
    /\ lastCall = [op |-> "none"]
    /\ ncalls = 0

\* A panic ends the invocation; nothing is called on the context after it.
Running ==
    /\ ncalls < MaxCalls
    /\ lastCall.op # "none" => lastCall.tag # "panic"

\* The operation `op` has gone through plan() with result r and has ended
\* with `tag`, leaving the plan p in the context.
Called(op, r, tag, p) ==
    /\ held' = [held EXCEPT !.plan = p]
    /\ fetches' = fetches + r.fetched
    /\ loaded' = (loaded \/ (r.fetched = 1 /\ r.tag = "Ok"))
    /\ lastCall' = [op |-> op, tag |-> tag, context |-> held,
                    resolved |-> r.tag, fetched |-> r.fetched,
                    failure |-> r.failure, cached |-> loaded]
    /\ ncalls' = ncalls + 1
    /\ UNCHANGED nonPlanVars

\* The feeder's loop ran on the resolved plan, or plan()'s failure went up
\* through `?` (or its panic unwound).
Fed(op, r, f) ==
    IF r.tag = "Ok"
    THEN Called(op, r, f.ret, f.plan)
    ELSE Called(op, r, r.tag, r.plan)

\* ctx.plan().await
CallPlan ==
    /\ Running
    /\ \E answer \in StoreAnswers :
         LET r == resolve_plan(held, answer) IN Called("plan", r, r.tag, r.plan)

\* ctx.execute().await: collect() gives the batches or an error, which is
\* wrapped into FlockError::Plan.
CallExecute ==
    /\ Running
    /\ \E answer \in StoreAnswers, collected \in {"Ok", "Err"} :
         LET r == resolve_plan(held, answer)
         IN Called("execute", r, IF r.tag = "Ok" THEN collected ELSE r.tag,
                   r.plan)

\* ctx.feed_one_source(&partitions).await
CallFeedOneSource ==
    /\ Running
    /\ \E answer \in StoreAnswers, partitions \in HeldPartitionSets :
         LET r == resolve_plan(held, answer)
         IN Fed("feed_one_source", r, feed_one_source(r.plan, partitions))

\* ctx.feed_two_source(&left, &right).await
CallFeedTwoSource ==
    /\ Running
    /\ \E answer \in StoreAnswers, left \in HeldPartitionSets,
          right \in HeldPartitionSets :
         LET r == resolve_plan(held, answer)
         IN Fed("feed_two_source", r, feed_two_source(r.plan, left, right))

\* ctx.feed_data_sources(&sources).await
CallFeedDataSources ==
    /\ Running
    /\ \E answer \in StoreAnswers, sources \in HeldSourceLists :
         LET r == resolve_plan(held, answer)
         IN Fed("feed_data_sources", r, feed_data_sources(r.plan, sources))

NextPlan ==
    \/ CallPlan
    \/ CallExecute
    \/ CallFeedOneSource
    \/ CallFeedTwoSource
    \/ CallFeedDataSources

SpecPlan == InitPlan /\ [][NextPlan]_vars

--------------------------------------------------------------------------
(* Properties of plan resolution (SpecPlan).                              *)

\* C11: once a call has fetched the plan from the overflow store
\* successfully, every later plan(), execute() or feed_* call on that
\* context sends no further request to the store.
C11_FetchOnce ==
    (lastCall.op # "none" /\ lastCall.cached) => lastCall.fetched = 0

\* The operations that resolve the plan.
PlanUsers ==
    {"plan", "execute", "feed_one_source", "feed_two_source",
     "feed_data_sources"}

\* The call started on a context that holds the sentinel and no overflow
\* reference.
Unrecoverable(call) ==
    /\ call.op # "none"
    /\ IsEmptyExec(call.context.plan)
    /\ ~call.context.plan_s3_idx.some

\* C12: with the empty-plan sentinel held and plan_s3_idx absent, plan(),
\* execute() and every feed_* operation panic: they return neither a plan
\* nor an error value, and send nothing to the store.
C12_MissingPlanIsFatal ==
    Unrecoverable(lastCall) =>
        /\ lastCall.op \in PlanUsers
        /\ lastCall.tag = "panic"
        /\ lastCall.fetched = 0

\* A dual-source feed was called on such a context and panicked.
C12_Witness ==
    /\ Unrecoverable(lastCall)
    /\ lastCall.op = "feed_two_source"
    /\ lastCall.tag = "panic"

\* The step is a call on the held context.
CallStep == ncalls' = ncalls + 1

\* C23: when plan() fails because the store request failed, it returns an
\* error and leaves the context as it was: the plan is still the sentinel,
\* and plan_s3_idx, name and next are unchanged; the next plan() call then
\* sends the request again.
C23_FailedRequestLeavesContext ==
    [][/\ (/\ CallStep
           /\ lastCall'.op = "plan"
           /\ lastCall'.failure = "request_error")
          => /\ lastCall'.tag = "Err"
             /\ held' = held
             /\ IsEmptyExec(held'.plan)
       /\ (/\ CallStep
           /\ lastCall.op = "plan"
           /\ lastCall.failure = "request_error"
           /\ lastCall'.op = "plan")
          => lastCall'.fetched = 1]_vars

\* After a failed request a second plan() call has sent the request again,
\* which failed too; the context is as it was at the start.
C23_Witness ==
    /\ ncalls = 2
    /\ fetches = 2
    /\ ~loaded
    /\ lastCall.op = "plan"
    /\ lastCall.failure = "request_error"
    /\ lastCall.tag = "Err"
    /\ held = lastCall.context
    /\ IsEmptyExec(held.plan)
    /\ held.next = Lambda(GroupName(1))

\* C13: whichever way the fetch of the overflowed plan fails, plan()
\* returns an error value and does not abort.
C13_FetchFailurePropagated ==
    (lastCall.op = "plan" /\ lastCall.failure \in FetchFailures)
        => lastCall.tag = "Err"

--------------------------------------------------------------------------
(* Properties of marshal and unmarshal (SpecCtx).                         *)

\* C2: marshal with a supported codec succeeds, and unmarshal of what it
\* returned succeeds and gives a context equal to the original one, where
\* equal compares plan_s3_idx, name, next and the serialized plan.
C2_RoundTrip ==
    origin = "marshal" =>
        /\ encoding \in Supported => wire.tag = "Ok"
        /\ back.tag # "none" =>
             /\ back.tag = "Ok"
             /\ ContextEq(back.value, ctx)

\* A context with an overflow reference, a Group target and a leaf that
\* holds data went through Snappy and came back equal, without the data.
C2_Witness ==
    /\ origin = "marshal" /\ encoding = "Snappy"
    /\ back.tag = "Ok"
    /\ ctx.plan_s3_idx.some
    /\ ctx.next.kind = "Group"
    /\ ctx.plan.op = "hash_join_exec"
    /\ back.value # ctx
    /\ ContextEq(back.value, ctx)

\* The codec tag an envelope string carries.
EnvelopeTag(str) == str[Len(str) - 1]

\* C14: unmarshal of a malformed input (not an envelope, context bytes
\* that do not decompress under the stated codec, or bytes that are not an
\* Execution Context) returns a decode error: it does not panic and
\* returns no context.
C14_MalformedIsDecodeError ==
    (origin \in MalformedPlaces /\ back.tag # "none") => back = DecodeError

\* unmarshal returned the decode error for context bytes that are not an
\* output of the codec the envelope states.
C14_Witness ==
    /\ origin = "compression"
    /\ EnvelopeTag(wire.value) \in Compressing
    /\ back = DecodeError

\* C10: marshal with a codec other than None, Snappy, Lz4, Zstd returns no
\* successful value, and neither does unmarshal of an envelope whose
\* encoding tag is such a codec.
C10_UnsupportedCodecFails ==
    /\ (origin = "marshal" /\ encoding \notin Supported) => wire.tag # "Ok"
    /\ (back.tag # "none" /\ EnvelopeTag(wire.value) \notin Supported)
           => back.tag # "Ok"

\* unmarshal has panicked on a received envelope tagged with a variant
\* that it does not handle.
C10_Witness ==
    /\ origin = "received"
    /\ EnvelopeTag(wire.value) = "Unsupported"
    /\ back.tag = "panic"

--------------------------------------------------------------------------
(* Properties of the launcher and the driver (Spec).                      *)

\* A function name that starts with q-<nn> belongs to node nn.
BelongsTo(name, n) ==
    LET prefix == GroupName(n)
    IN /\ Len(name) >= Len(prefix)
       /\ \A k \in 1..Len(prefix) : name[k] = prefix[k]

\* The number of calls of kind `op` issued for the functions of node n.
NodeCalls(op, n) ==
    LET mine == {c \in BagToSet(calls) : c.op = op /\ BelongsTo(c.name, n)}
    IN BagCardinality([c \in mine |-> calls[c]])

\* The nodes whose branch of the loop body has run to its end.
Processed(n) ==
    /\ n \in 0..(count - 1)
    /\ pc \notin {"start", "panicked"}
    /\ \/ n > i
       \/ pc = "returned" /\ ret.tag = "Err" /\ n = i

\* One create_function per member name 00..G-1, and set_concurrency(name, 1)
\* for exactly the members whose create_function succeeded.
GroupRegistered(n) ==
    /\ NodeCalls("create_function", n) = G
    /\ \A j \in 0..(G - 1) :
         LET cr == CreateFunction(MemberName(n, j))
             sc == SetConcurrency(MemberName(n, j), 1)
         IN /\ CopiesIn(cr, calls) = 1
            /\ CopiesIn(sc, calls) = IF cr \in failed THEN 0 ELSE 1
    /\ \A c \in BagToSet(calls) :
         c.op = "set_concurrency" /\ BelongsTo(c.name, n) =>
           /\ c.arg = 1
           /\ \E j \in 0..(G - 1) : c.name = MemberName(n, j)

SingleRegistered(n) ==
    /\ NodeCalls("create_function", n) = 1
    /\ NodeCalls("set_concurrency", n) = 0

\* C1 (as amended): for every DAG node the materialization has processed,
\* a node of concurrency 1 has exactly G functions registered (one
\* create_function per member name), each successful create_function
\* followed by set_concurrency(name, 1); a node of concurrency k # 1 has
\* exactly one create_function call and no set_concurrency, whatever k is.
C1_GroupForConcurrencyOne ==
    \A n \in 0..(count - 1) :
        Processed(n) =>
            IF concurrency[n] = 1 THEN GroupRegistered(n)
            ELSE SingleRegistered(n)

\* C1 as stated: one function for a node of concurrency 1, G functions
\* (each with set_concurrency(name, 1)) for a node of concurrency k > 1;
\* read here for the launches in which no platform call fails.
C1_AsStated ==
    \A n \in 0..(count - 1) :
        (Processed(n) /\ failed = {}) =>
            IF concurrency[n] = 1 THEN SingleRegistered(n)
            ELSE GroupRegistered(n)

\* A finished materialization of a DAG holding a node of concurrency 1 and
\* a node of concurrency 3, with every registration successful.
C1_Witness ==
    /\ pc = "spawn_generators"
    /\ count = 2 /\ concurrency[0] = 1 /\ concurrency[1] = 3
    /\ failed = {}
    /\ NodeCalls("create_function", 0) = G
    /\ NodeCalls("create_function", 1) = 1

\* The create_function calls issued so far.
Registrations == {c \in BagToSet(calls) : c.op = "create_function"}

RegistrationOps == {"create_function", "set_concurrency"}

\* The calls issued by the step.
NewCalls == {c \in BagToSet(calls') : CopiesIn(c, calls') > CopiesIn(c, calls)}

\* Every registration task of node m has finished: each member's
\* create_function was issued and has failed or was followed by its
\* set_concurrency; the single function's create_function has succeeded.
NodeDone(m) ==
    IF IsGroupNode(m)
    THEN \A j \in 0..(G - 1) :
           LET cr == CreateFunction(MemberName(m, j))
           IN /\ CopiesIn(cr, calls) = 1
              /\ \/ cr \in failed
                 \/ CopiesIn(SetConcurrency(MemberName(m, j), 1), calls) = 1
    ELSE LET cr == CreateFunction(ContextName(m))
         IN CopiesIn(cr, calls) = 1 /\ cr \notin failed

\* C16: the nodes are processed from count-1 down to 0, and a
\* registration call for a node is issued only when every registration
\* task of every higher node has finished, successfully or not, and no
\* call for a lower node has been issued.
C16_OrderAndBarrier ==
    [][\A c \in NewCalls :
         c.op \in RegistrationOps =>
           \E n \in 0..(count - 1) :
              /\ BelongsTo(c.name, n)
              /\ \A m \in (n + 1)..(count - 1) : NodeDone(m)
              /\ \A d \in BagToSet(calls) :
                   d.op \in RegistrationOps =>
                     \A k \in 0..(n - 1) : ~BelongsTo(d.name, k)]_vars

\* Node 0 is being registered after the group of node 1, one of whose
\* members failed.
C16_Witness ==
    /\ count = 2 /\ IsGroupNode(1)
    /\ \E c \in failed : BelongsTo(c.name, 1)
    /\ NodeCalls("create_function", 0) >= 1

\* C20: every generator invocation targets a function name for which
\* create_nexmark_functions issued a create_function in the same launch,
\* whatever the concurrency of node 0.
C20_TargetRegistered ==
    \A c \in BagToSet(calls) :
        c.op = "invoke_function" => CopiesIn(CreateFunction(c.name), calls) >= 1

\* The generator invocations issued so far.
Invocations == {c \in BagToSet(calls) : c.op = "invoke_function"}

\* C22: a generator invocation is issued only after the materialization
\* has finished: the registration tasks of every DAG node, count-1 down to
\* 0, have ended.
C22_InvokeAfterMaterialization ==
    Invocations # {} => \A m \in 0..(count - 1) : NodeDone(m)

\* A generator was invoked after a two-node DAG was materialized, a member
\* of its group having failed.
C22_Witness ==
    /\ Invocations # {}
    /\ count = 2
    /\ \E n \in 0..1 : IsGroupNode(n) /\ \E c \in failed : BelongsTo(c.name, n)

\* C3: the generator tasks are independent. A spawned task can always take
\* its step, whatever the other tasks did (no cancellation, no order); and
\* the driver returns from the join only when every one of the N tasks has
\* resolved, each having issued its own invocation, also when some failed.
C3_FanOutIndependent ==
    /\ \A g \in 0..(generators - 1) :
         task[g] = "spawned" => ENABLED GeneratorInvoke(g)
    /\ (pc = "returned" /\ ret.tag = "Ok") =>
         \A g \in 0..(generators - 1) :
            /\ task[g] \in {"ok", "err"}
            /\ CopiesIn(InvokeFunction(GeneratorTarget, g), calls) = 1

\* The driver has returned; generator 0 failed and generator 1 completed.
C3_Witness ==
    /\ pc = "returned" /\ ret.tag = "Ok"
    /\ generators = 2
    /\ task[0] = "err" /\ task[1] = "ok"

\* C4: a failed generator invocation is observable in what the driver
\* returns: with a failed generator the driver does not return the value
\* it returns when every generator succeeded.
C4_FailureObservable ==
    (pc = "returned" /\ \E g \in 0..(generators - 1) : task[g] = "err")
        => ret # Ok

\* C5: once a registration call (create_function or set_concurrency) has
\* failed, no generator is spawned, and what the launch returns is that
\* error.
C5_RegistrationFailureAborts ==
    (\E c \in failed : c.op \in {"create_function", "set_concurrency"}) =>
        /\ \A g \in 0..(generators - 1) : task[g] = "unspawned"
        /\ pc = "returned" => (ret.tag = "Err" /\ ret.error \in failed)

\* C6: a DAG of 100 or more nodes fails the assertion with no platform call
\* issued; a DAG of fewer than 100 nodes never fails it.
C6_Guardrail ==
    /\ count >= 100 => (pc \in {"start", "panicked"} /\ calls = EmptyBag)
    /\ count < 100 => pc # "panicked"

\* The assertion has failed on a DAG of exactly 100 nodes.
C6_Witness == count = 100 /\ pc = "panicked" /\ calls = EmptyBag

--------------------------------------------------------------------------
(* Properties of compare_schema (SpecSchema).                             *)

\* C8: compare_schema gives the same answer with its arguments exchanged.
C8_Symmetric == cmp.called => cmp.forward = cmp.backward

--------------------------------------------------------------------------
(* Properties of the partition feeder (SpecFeed).                         *)

\* The paths of the childless nodes of a plan.
RECURSIVE LeafPaths(_)
LeafPaths(p) ==
    IF p.children = <<>> THEN {<<>>}
    ELSE UNION {{<<k>> \o q : q \in LeafPaths(p.children[k])} :
                k \in 1..Len(p.children)}

\* Path l comes before path q: it is shallower, or as deep and to the left.
ComesBefore(l, q) ==
    \/ Len(l) < Len(q)
    \/ /\ Len(l) = Len(q)
       /\ \E k \in 1..Len(l) :
            /\ l[k] < q[k]
            /\ \A j \in 1..(k - 1) : l[j] = q[j]

\* The shallowest childless node, the leftmost one of that depth.
ShallowestLeftmostLeaf(p) ==
    CHOOSE l \in LeafPaths(p) :
        \A q \in LeafPaths(p) \ {l} : ComesBefore(l, q)

\* A plan with the data of its leaves taken out.
RECURSIVE Shape(_)
Shape(p) ==
    IF p.children = <<>> THEN [p EXCEPT !.partitions = <<>>]
    ELSE [p EXCEPT !.children = [k \in 1..Len(p.children) |->
                                    Shape(p.children[k])]]

NameSet(schema) == {schema[k] : k \in 1..Len(schema)}

\* The case C7 is about: feed_two_source on a plan of two MemoryExec leaves
\* whose schemas share no field name, with two partition sets that carry the
\* two leaves' schemas (in either order).
DualSourceCase ==
    /\ feedOp = "feed_two_source"
    /\ Cardinality(LeafPaths(before)) = 2
    /\ \A l \in LeafPaths(before) : NodeAt(before, l).op = "memory_exec"
    /\ \A l, q \in LeafPaths(before) :
         l # q => NameSet(NodeAt(before, l).schema)
                    \cap NameSet(NodeAt(before, q).schema) = {}
    /\ HasFirstBatch(feedArgs[1]) /\ HasFirstBatch(feedArgs[2])
    /\ \E l, q \in LeafPaths(before) :
         /\ l # q
         /\ feedArgs[1][1][1].schema = NodeAt(before, l).schema
         /\ feedArgs[2][1][1].schema = NodeAt(before, q).schema

\* Each leaf holds the partition set that carries its schema, and the call
\* with the two arguments exchanged gives the same plan.
DualSourceBound ==
    /\ feedRet = "Ok"
    /\ \A l \in LeafPaths(before) : \A k \in {1, 2} :
         feedArgs[k][1][1].schema = NodeAt(before, l).schema
            => NodeAt(plan, l).partitions = feedArgs[k]
    /\ plan = feed_two_source(before, feedArgs[2], feedArgs[1]).plan

\* C7 (as amended): for a plan with two leaf scans whose schemas are not
\* empty and have no field name in common, and two partition sets whose
\* schemas are those of the two leaves, feed_two_source binds to each leaf
\* the partition set with that leaf's schema, and the binding is the same
\* for (left, right) and (right, left).
C7_DualSourceNonEmpty ==
    (DualSourceCase
     /\ \A l \in LeafPaths(before) : NodeAt(before, l).schema # <<>>)
        => DualSourceBound

\* C7 as stated: the same for any two leaf schemas with no field name in
\* common.
C7_AsStated == DualSourceCase => DualSourceBound

\* The test's join: leaves {a,b} and {c,d}, fed as (right, left).
C7_Witness ==
    /\ DualSourceCase
    /\ before.op = "hash_join_exec"
    /\ before.children[1].op = "memory_exec"
    /\ before.children[2].op = "memory_exec"
    /\ before.children[1].schema = <<"a", "b">>
    /\ before.children[2].schema = <<"c", "d">>
    /\ feedArgs[1][1][1].schema = <<"c", "d">>
    /\ plan.children[1].partitions = feedArgs[2]
    /\ plan.children[2].partitions = feedArgs[1]

\* C9: feed_one_source binds the partition set to the first childless node
\* in breadth-first order (the shallowest, leftmost one) and to no other:
\* every other leaf, and the shape of the plan, are as before the call.
\* When that node is no MemoryExec the call panics and nothing is bound.
C9_FirstLeafOnly ==
    feedOp = "feed_one_source" =>
        LET first == ShallowestLeftmostLeaf(before)
        IN /\ Shape(plan) = Shape(before)
           /\ \A l \in LeafPaths(before) \ {first} :
                NodeAt(plan, l) = NodeAt(before, l)
           /\ feedRet = "Ok" =>
                /\ binds = <<[path |-> first, source |-> 1]>>
                /\ NodeAt(plan, first).partitions = feedArgs[1]
           /\ feedRet = "panic" =>
                /\ NodeAt(before, first).op # "memory_exec"
                /\ plan = before /\ binds = <<>>
           /\ feedRet \in {"Ok", "panic"}

\* A join whose left input is deeper than its right input: the right
\* child, at depth 1, is bound and the left leaf keeps its earlier data.
C9_Witness ==
    /\ feedOp = "feed_one_source" /\ feedRet = "Ok"
    /\ before.op = "hash_join_exec"
    /\ before.children[1].op = "coalesce_batches_exec"
    /\ before.children[2].op = "memory_exec"
    /\ binds = <<[path |-> <<2>>, source |-> 1]>>
    /\ HasFirstBatch(feedArgs[1])
    /\ plan.children[2].partitions = feedArgs[1]
    /\ plan.children[2].partitions # before.children[2].partitions
    /\ plan.children[1].children[1].partitions # <<>>
    /\ plan.children[1].children[1].partitions # feedArgs[1]

\* The feeds that choose among candidate partition sets.
SourceFeeds == {"feed_two_source", "feed_data_sources"}

\* Candidate k satisfies the schema-match rule for the leaf at path l.
Matches(l, k) ==
    /\ HasFirstBatch(feedArgs[k])
    /\ compare_schema(NodeAt(before, l).schema, feedArgs[k][1][1].schema)

\* The candidates that match the leaf at path l.
Candidates(l) == {k \in 1..Len(feedArgs) : Matches(l, k)}

\* The set_partitions calls made on the leaf at path l.
BindsOf(l) == {n \in 1..Len(binds) : binds[n].path = l}

\* C17: a leaf that is bound is bound to the earliest candidate in list
\* order that satisfies the schema-match rule, and after the call it holds
\* that candidate: no later one has overwritten it.
C17_FirstMatchWins ==
    feedOp \in SourceFeeds =>
        \A n \in 1..Len(binds) :
            LET l == binds[n].path
                k == binds[n].source
            IN /\ k \in Candidates(l)
               /\ \A j \in Candidates(l) : k <= j
               /\ NodeAt(plan, l).partitions = feedArgs[k]

\* A leaf that two different candidates match holds the first of them.
C17_Witness ==
    /\ feedOp \in SourceFeeds
    /\ feedRet = "Ok"
    /\ \E n \in 1..Len(binds) :
         \E j \in Candidates(binds[n].path) :
            /\ j > binds[n].source
            /\ feedArgs[j] # feedArgs[binds[n].source]
            /\ NodeAt(plan, binds[n].path).partitions = feedArgs[binds[n].source]

\* C18 (as amended): a dual-source or multi-source feed binds at most one
\* partition set into a leaf, and only into leaves; when it returns, it
\* has visited every leaf: the leaves some candidate matches are bound
\* exactly once, the leaves no candidate matches are not bound and hold
\* the data they held before.
C18_EachLeafAtMostOnce ==
    feedOp \in SourceFeeds =>
        /\ \A n \in 1..Len(binds) : binds[n].path \in LeafPaths(before)
        /\ \A l \in LeafPaths(before) : Cardinality(BindsOf(l)) <= 1
        /\ feedRet = "Ok" =>
             \A l \in LeafPaths(before) :
                IF Candidates(l) # {}
                THEN Cardinality(BindsOf(l)) = 1
                ELSE /\ BindsOf(l) = {}
                     /\ NodeAt(plan, l) = NodeAt(before, l)

\* C18 as stated: a feed that returns has bound a partition set into
\* every leaf exactly once.
C18_AsStated ==
    (feedOp \in SourceFeeds /\ feedRet = "Ok") =>
        \A l \in LeafPaths(before) : Cardinality(BindsOf(l)) = 1

\* Both leaves of a join were visited and each was bound once.
C18_Witness ==
    /\ feedOp \in SourceFeeds
    /\ feedRet = "Ok"
    /\ Cardinality(LeafPaths(before)) = 2
    /\ Len(binds) = 2
    /\ binds[1].path # binds[2].path
    /\ binds[1].source # binds[2].source

\* The leaves that no candidate matches: every candidate was compared and
\* none satisfied the rule.
Unmatched ==
    {l \in LeafPaths(before) :
        \A k \in 1..Len(feedArgs) : HasFirstBatch(feedArgs[k]) /\ ~Matches(l, k)}

\* C19: a leaf that no candidate matches is left unbound, its data
\* unchanged; the traversal goes on, so the other leaves of a plan of
\* MemoryExec leaves are bound to their first match, and the feed returns
\* success.
C19_UnmatchedLeftUnbound ==
    (feedOp \in SourceFeeds /\ Unmatched # {}) =>
        /\ \A l \in Unmatched :
             /\ BindsOf(l) = {}
             /\ NodeAt(plan, l) = NodeAt(before, l)
        /\ (\A l \in LeafPaths(before) : NodeAt(before, l).op = "memory_exec")
             => /\ feedRet = "Ok"
                /\ \A l \in LeafPaths(before) \ Unmatched :
                     Cardinality(BindsOf(l)) = 1

\* The left leaf of a join is matched by no candidate and keeps the data it
\* held; the right leaf, visited after it, is bound; the feed returned Ok.
C19_Witness ==
    /\ feedOp \in SourceFeeds
    /\ feedRet = "Ok"
    /\ before.op = "hash_join_exec"
    /\ <<1>> \in Unmatched
    /\ Len(feedArgs) >= 1
    /\ before.children[1].partitions # <<>>
    /\ plan.children[1] = before.children[1]
    /\ BindsOf(<<2>>) # {}

\* The schema-match rule on field-name sets: the names of one schema are
\* all among the names of the other.
RuleMatch(sa, sb) ==
    NameSet(sa) \subseteq NameSet(sb) \/ NameSet(sb) \subseteq NameSet(sa)

\* A feed of two candidate partition sets, each holding a batch, on a plan
\* of two MemoryExec leaves with non-empty schemas.
TwoLeavesTwoCandidates ==
    /\ feedOp \in SourceFeeds
    /\ Len(feedArgs) = 2
    /\ HasFirstBatch(feedArgs[1]) /\ HasFirstBatch(feedArgs[2])
    /\ feedArgs[1][1][1].schema # <<>> /\ feedArgs[2][1][1].schema # <<>>
    /\ Cardinality(LeafPaths(before)) = 2
    /\ \A l \in LeafPaths(before) :
         /\ NodeAt(before, l).op = "memory_exec"
         /\ NodeAt(before, l).schema # <<>>

\* Candidate k matches the leaf at path l by the rule.
RuleMatches(l, k) ==
    RuleMatch(NodeAt(before, l).schema, feedArgs[k][1][1].schema)

\* The two leaves were bound, to different candidates.
BoundApart ==
    /\ feedRet = "Ok"
    /\ \A l \in LeafPaths(before) : Cardinality(BindsOf(l)) = 1
    /\ \A l, q \in LeafPaths(before) :
         l # q => \A n \in BindsOf(l), o \in BindsOf(q) :
                     binds[n].source # binds[o].source

\* C21 (as amended): when the plan has two leaves and each of the two
\* partition sets matches one leaf and not the other, a different leaf
\* each, every leaf is bound to the partition set that matches it, so the
\* two leaves hold different partition sets.
C21_OneLeafPerPartitionSet ==
    (/\ TwoLeavesTwoCandidates
     /\ \E l, q \in LeafPaths(before) :
          /\ l # q
          /\ RuleMatches(l, 1) /\ ~RuleMatches(q, 1)
          /\ RuleMatches(q, 2) /\ ~RuleMatches(l, 2))
        => /\ BoundApart
           /\ \A l \in LeafPaths(before) : \A n \in BindsOf(l) :
                RuleMatches(l, binds[n].source)

\* C21 as stated: it is enough that each partition set matches a different
\* leaf, whatever else it matches; here for two leaves of different
\* schemas and two partition sets of different schemas.
C21_AsStated ==
    (/\ TwoLeavesTwoCandidates
     /\ feedArgs[1][1][1].schema # feedArgs[2][1][1].schema
     /\ \E l, q \in LeafPaths(before) :
          /\ l # q
          /\ NodeAt(before, l).schema # NodeAt(before, q).schema
          /\ RuleMatches(l, 1) /\ RuleMatches(q, 2))
        => BoundApart

\* Leaves {a,b} and {c,d}, fed {c,d} first: each leaf holds its own set.
C21_Witness ==
    /\ TwoLeavesTwoCandidates
    /\ before.op = "hash_join_exec"
    /\ before.children[1].op = "memory_exec"
    /\ before.children[2].op = "memory_exec"
    /\ RuleMatches(<<1>>, 2) /\ ~RuleMatches(<<2>>, 2)
    /\ RuleMatches(<<2>>, 1) /\ ~RuleMatches(<<1>>, 1)
    /\ BoundApart
    /\ plan.children[1].partitions = feedArgs[2]
    /\ plan.children[2].partitions = feedArgs[1]

\* The leaf at path l examines a candidate that holds no batch: there is
\* such a candidate, and no candidate listed before it matches the leaf.
ExaminesEmpty(l) ==
    \E k \in 1..Len(feedArgs) :
        /\ ~HasFirstBatch(feedArgs[k])
        /\ \A j \in 1..(k - 1) : HasFirstBatch(feedArgs[j]) /\ ~Matches(l, j)

\* C24: a candidate that holds no batch makes the feed panic at the first
\* leaf that examines it: that leaf and the leaves after it are not bound,
\* and the call returns neither Ok nor an error. A candidate listed after
\* a leaf's first match is not examined for that leaf: when no leaf of a
\* plan of MemoryExec leaves comes to examine such a candidate, the call
\* returns Ok.
C24_EmptyCandidatePanics ==
    feedOp \in SourceFeeds =>
        IF \E l \in LeafPaths(before) : ExaminesEmpty(l)
        THEN /\ feedRet = "panic"
             /\ \A l \in LeafPaths(before) :
                  ExaminesEmpty(l) =>
                    /\ BindsOf(l) = {}
                    /\ \A n \in 1..Len(binds) : ComesBefore(binds[n].path, l)
        ELSE (\A l \in LeafPaths(before) : NodeAt(before, l).op = "memory_exec")
                => feedRet = "Ok"

\* The left leaf of a join was bound to the first candidate without the
\* second, empty one being examined for it; the right leaf, which the first
\* candidate does not match, examined the empty one: the call panicked.
C24_Witness ==
    /\ feedOp \in SourceFeeds
    /\ before.op = "hash_join_exec"
    /\ before.children[1].op = "memory_exec"
    /\ before.children[2].op = "memory_exec"
    /\ Len(feedArgs) = 2
    /\ ~HasFirstBatch(feedArgs[2])
    /\ ~ExaminesEmpty(<<1>>)
    /\ ExaminesEmpty(<<2>>)
    /\ Len(binds) = 1
    /\ binds[1].path = <<1>>
    /\ plan.children[1].partitions = feedArgs[1]
    /\ feedRet = "panic"

==========================================================================
